---- MODULE Spec2Model ----
(***************************************************************************)
(* Retail Sales Dashboard (src/app.py): a Streamlit script that is re-run  *)
(* top to bottom on every user interaction.  The state is the three SQLite *)
(* stores (users, sales, feedback) and one browser session's               *)
(* st.session_state; every action below is one run of the script with the  *)
(* widget input that triggered it.                                         *)
(*                                                                         *)
(* Text is modelled as sequences of one-character strings so that          *)
(* lower-casing, stripping, formatting and regular-expression extraction   *)
(* are computed rather than assumed.                                       *)
(***************************************************************************)
EXTENDS Integers, Sequences, FiniteSets, TLC

VARIABLES
    users,               \* users.db: rows of table users, in insertion order
    sales,               \* sales.db: [exists, rows] of table sales
    feedback,            \* feedback.db: rows of table feedback, in insertion order
    auth,                \* st.session_state.auth
    user,                \* st.session_state.user
    star_rating,         \* st.session_state.star_rating (Unset until the Feedback page ran)
    feedback_submitted,  \* st.session_state.feedback_submitted (absent reads as FALSE)
    out,                 \* what the last run of the script rendered / returned
    reg                  \* concurrent sessions inside register_user: session -> call state

vars == <<users, sales, feedback, auth, user, star_rating, feedback_submitted, out, reg>>

(***************************************************************************)
(* Bounds of the model.                                                    *)
(***************************************************************************)
MaxUsers == 2        \* rows the users table may grow to
MaxSalesRows == 2    \* rows the sales table may grow to
MaxFeedback == 2     \* rows the feedback table may grow to
NumSessions == 2     \* concurrent sessions calling register_user
TicksPerDay == 2     \* time-of-day resolution of a timestamp
MaxDay == 2          \* calendar days a timestamp or a date picker may name

(***************************************************************************)
(* Text helpers.                                                           *)
(***************************************************************************)
EmptyStr == << >>

\* a missing text cell; a missing timestamp or float is the empty tuple
NaN == "NaN"

Missing == << >>

\* a key st.session_state does not hold; a held value v is <<v>>
Unset == << >>

\* str.lower() on the letters the model uses
LowerChar(c) ==
    CASE c = "A" -> "a" [] c = "D" -> "d" [] c = "E" -> "e" [] c = "T" -> "t"
      [] c = "R" -> "r" [] c = "N" -> "n" [] c = "C" -> "c" [] c = "W" -> "w"
      [] OTHER -> c

Lower(s) == [i \in 1..Len(s) |-> LowerChar(s[i])]

IsSpace(c) == c \in {" ", "\t"}

IsDigit(c) == c \in {"0", "1", "2", "3", "4", "5", "6", "7", "8", "9"}

RECURSIVE LStrip(_)
LStrip(s) == IF s # << >> /\ IsSpace(Head(s)) THEN LStrip(Tail(s)) ELSE s

RECURSIVE RStrip(_)
RStrip(s) ==
    IF s # << >> /\ IsSpace(s[Len(s)]) THEN RStrip(SubSeq(s, 1, Len(s) - 1)) ELSE s

\* str.strip()
Strip(s) == RStrip(LStrip(s))

(***************************************************************************)
(* Credentials: usernames and passwords typed into the text inputs.        *)
(***************************************************************************)
admin == <<"a", "d", "m", "i", "n">>
AdminCap == <<"A", "d", "m", "i", "n">>
alice == <<"a", "l", "i", "c", "e">>

Usernames == {admin, AdminCap, alice}

Passwords == {"pw1", "pw2"}

\* hashlib.sha256(password.encode()).hexdigest(), by its leading 8 hex digits
hash_password(password) ==
    CASE password = "pw1" -> "c592df4a"
      [] password = "pw2" -> "93915a0a"

\* SELECT * FROM users WHERE username = ?  (row positions, in table order)
SelectUser(tbl, username) ==
    {i \in 1..Len(tbl) : tbl[i].username = username}

FirstOf(S) == CHOOSE i \in S : \A j \in S : i <= j

verify_user_any_password(username, password) == SelectUser(users, username) # {}

\* verify_user: not df.empty and df['password'][0] == hash_password(password)
verify_user(username, password) ==
    LET df == SelectUser(users, username)
    IN  /\ df # {}
        /\ users[FirstOf(df)].password = hash_password(password)

InsertWithoutKey(tbl, username) == TRUE

\* INSERT INTO users: username is the PRIMARY KEY, a duplicate raises IntegrityError
InsertAllowed(tbl, username) == SelectUser(tbl, username) = {}

\* register_user, lines 82-83: `if not df.empty: return False`
UserExistsNever(tbl, username) == FALSE

UserExists(tbl, username) == SelectUser(tbl, username) # {}

\* register_user, lines 85-91: the INSERT and `return True`, or the INSERT's exception
InsertUser(tbl, username, password) ==
    IF InsertAllowed(tbl, username)
    THEN [ret |-> "True",
          tbl |-> Append(tbl, [username |-> username,
                               password |-> hash_password(password)])]
    ELSE [ret |-> "IntegrityError", tbl |-> tbl]

\* register_user run without interruption: [ret, tbl] = its outcome and the table after it
register_user(tbl, username, password) ==
    IF UserExists(tbl, username) THEN [ret |-> "False", tbl |-> tbl]
    ELSE InsertUser(tbl, username, password)

(***************************************************************************)
(* Session set-up, the login / register sidebar and logout.                *)
(***************************************************************************)
LoginForm(event) == [page |-> "Login", event |-> event]

\* the login form with the outcome of a Login / Register press on the typed inputs
AuthResult(event, username, password) ==
    [page |-> "Login", event |-> event, username |-> username, password |-> password]

\* the page a re-run renders right after login: the menu's first entry, no button pressed
FirstPage(username, password) ==
    [page |-> "Upload Data", event |-> "login_ok",
     username |-> username, password |-> password]

\* `if not st.session_state.auth: ... st.stop()`: nothing below the sidebar runs
StoppedNever == FALSE

Stopped == ~auth

\* a fresh browser session: st.session_state is empty and gets its defaults
NewSession ==
    /\ auth' = FALSE
    /\ user' = EmptyStr
    /\ star_rating' = Unset
    /\ feedback_submitted' = FALSE
    /\ out' = LoginForm("new_session")
    /\ UNCHANGED <<users, sales, feedback, reg>>

\* Login tab: the Login button with the two text inputs filled in
Login(username, password) ==
    /\ ~auth
    /\ IF verify_user(username, password)
       THEN /\ auth' = TRUE
            /\ user' = username
            /\ out' = FirstPage(username, password)
       ELSE /\ out' = AuthResult("invalid_credentials", username, password)
            /\ UNCHANGED <<auth, user>>
    /\ UNCHANGED <<users, sales, feedback, star_rating, feedback_submitted, reg>>

\* Register tab: the Register button with the two text inputs filled in
Register(new_user, new_pass) ==
    /\ ~auth
    /\ Len(users) < MaxUsers \/ UserExists(users, new_user)
    /\ LET r == register_user(users, new_user, new_pass)
       IN  /\ users' = r.tbl
           /\ out' = AuthResult(CASE r.ret = "True" -> "registered"
                                    [] r.ret = "False" -> "username_exists"
                                    [] OTHER -> "exception",
                                  new_user, new_pass)
    /\ UNCHANGED <<sales, feedback, auth, user, star_rating, feedback_submitted, reg>>

LogoutForgetsFeedback ==
    /\ auth
    /\ auth' = FALSE
    /\ user' = EmptyStr
    /\ feedback_submitted' = FALSE
    /\ out' = LoginForm("logout")
    /\ UNCHANGED <<users, sales, feedback, star_rating, reg>>

\* Logout button in the sidebar, then st.rerun() shows the login form
Logout ==
    /\ auth
    /\ auth' = FALSE
    /\ user' = EmptyStr
    /\ out' = LoginForm("logout")
    /\ UNCHANGED <<users, sales, feedback, star_rating, feedback_submitted, reg>>

(***************************************************************************)
(* Sales store: save_to_db, load_data, clear_db.                           *)
(* A DataFrame is [columns, rows]: the header names and one tuple of cells *)
(* per row.  A date cell of an uploaded file is <<day, tick>> for a text   *)
(* that parses to that instant, NaT for an empty cell, Junk for a text     *)
(* pd.to_datetime cannot parse.  A stored timestamp is <<ticks>>, a float  *)
(* read back from text is <<n>>.                                           *)
(***************************************************************************)
Junk == <<"junk">>

NaT == Missing

date == <<"d", "a", "t", "e">>
product == <<"p", "r", "o", "d", "u", "c", "t">>
region == <<"r", "e", "g", "i", "o", "n">>
units_sold == <<"u", "n", "i", "t", "s", "_", "s", "o", "l", "d">>
revenue == <<"r", "e", "v", "e", "n", "u", "e">>

Range(f) == {f[i] : i \in DOMAIN f}

\* df.columns.str.strip().str.lower()
NormalizeColumns(columns) == [i \in DOMAIN columns |-> Lower(Strip(columns[i]))]

\* positions of the columns called `name`
ColIdx(columns, name) == {i \in DOMAIN columns : columns[i] = name}

\* pd.to_datetime of one cell / of a date picker's value (midnight of that day)
Timestamp(cell) == IF cell = NaT THEN NaT
                   ELSE <<cell[1] * TicksPerDay + cell[2]>>

Midnight(day) == <<day * TicksPerDay>>

DayOf(ts) == ts[1] \div TicksPerDay

DateAlwaysParses(columns, rows) == Cardinality(ColIdx(columns, date)) = 1

\* pd.to_datetime(df['date']) raises on a text it cannot parse, and on a
\* DataFrame (two columns called date) that lacks year / month / day
DateParses(columns, rows) ==
    /\ Cardinality(ColIdx(columns, date)) = 1
    /\ \A r \in DOMAIN rows : rows[r][FirstOf(ColIdx(columns, date))] # Junk

\* the frame's rows with the date column converted
ParseDates(columns, rows) ==
    LET d == FirstOf(ColIdx(columns, date))
    IN  [r \in DOMAIN rows |->
            [c \in DOMAIN rows[r] |->
                IF c = d THEN IF rows[r][c] = Junk THEN NaT ELSE Timestamp(rows[r][c])
                ELSE rows[r][c]]]

\* DataFrame.to_sql('sales', if_exists='append'): creates the table from the frame's
\* columns, or inserts by column name (a column the table lacks is an error)
ToSqlOk(tbl, columns) == ~tbl.exists \/ Range(columns) \subseteq Range(tbl.columns)

ToSql(tbl, columns, rows) ==
    IF ~tbl.exists
    THEN [exists |-> TRUE, columns |-> columns, rows |-> rows]
    ELSE [tbl EXCEPT !.rows = tbl.rows \o
            [r \in DOMAIN rows |->
                [c \in DOMAIN tbl.columns |->
                    IF ColIdx(columns, tbl.columns[c]) = {} THEN NaN
                    ELSE rows[r][FirstOf(ColIdx(columns, tbl.columns[c]))]]]]

\* save_to_db(df): [ret, tbl] = the return value and the sales table after it
save_to_db(tbl, df) ==
    LET columns == NormalizeColumns(df.columns)
    IN  IF ColIdx(columns, date) = {} THEN [ret |-> FALSE, tbl |-> tbl]
        ELSE IF ~DateParses(columns, df.rows) THEN [ret |-> FALSE, tbl |-> tbl]
        ELSE IF ~ToSqlOk(tbl, columns) THEN [ret |-> FALSE, tbl |-> tbl]
        ELSE [ret |-> TRUE, tbl |-> ToSql(tbl, columns, ParseDates(columns, df.rows))]

NoFrame == [columns |-> << >>, rows |-> << >>]

\* load_data(): the stored table, or an empty DataFrame when the query fails
load_data(tbl) ==
    IF tbl.exists THEN [columns |-> tbl.columns, rows |-> tbl.rows] ELSE NoFrame

\* DELETE FROM sales raises OperationalError while the table does not exist
ClearRaises(tbl) == ~tbl.exists

clear_db(tbl) == [tbl EXCEPT !.rows = << >>]

NoTable == [exists |-> FALSE, columns |-> << >>, rows |-> << >>]

(***************************************************************************)
(* Feedback store: save_feedback, the rating message and its extraction.   *)
(***************************************************************************)
DigitChars == <<"0", "1", "2", "3", "4", "5", "6", "7", "8", "9">>

\* str(n) of a natural number, as the f-string formats it
RECURSIVE IntToStr(_)
IntToStr(n) ==
    IF n < 10 THEN <<DigitChars[n + 1]>>
    ELSE IntToStr(n \div 10) \o <<DigitChars[(n % 10) + 1]>>

DigitVal(c) == CHOOSE d \in 0..9 : DigitChars[d + 1] = c

RECURSIVE StrToInt(_)
StrToInt(s) ==
    IF Len(s) = 1 THEN DigitVal(s[1])
    ELSE 10 * StrToInt(SubSeq(s, 1, Len(s) - 1)) + DigitVal(s[Len(s)])

RatingPrefix == <<"R", "a", "t", "i", "n", "g", ":">>
StarsComment == <<" ", "s", "t", "a", "r", "s", " ", "|", " ", "C", "o", "m", "m", "e", "n", "t", ":", " ">>
NoComment == <<"N", "o", " ", "c", "o", "m", "m", "e", "n", "t">>

\* f"Rating: {star_rating} stars | Comment: {comment.strip() or 'No comment'}"
FeedbackMessage(rating, comment) ==
    RatingPrefix \o <<" ">> \o IntToStr(rating) \o StarsComment \o
    (IF Strip(comment) = EmptyStr THEN NoComment ELSE Strip(comment))

HasPrefixAt(s, i, pre) ==
    /\ i + Len(pre) - 1 <= Len(s)
    /\ SubSeq(s, i, i + Len(pre) - 1) = pre

\* the longest run of characters satisfying the class that starts at position i
RECURSIVE SpaceRunEnd(_, _)
SpaceRunEnd(s, i) == IF i <= Len(s) /\ IsSpace(s[i]) THEN SpaceRunEnd(s, i + 1) ELSE i

RECURSIVE DigitRunEnd(_, _)
DigitRunEnd(s, i) == IF i <= Len(s) /\ IsDigit(s[i]) THEN DigitRunEnd(s, i + 1) ELSE i

\* re: Rating:\s*(\d+) matches at position i
RatingMatchAt(s, i) ==
    /\ HasPrefixAt(s, i, RatingPrefix)
    /\ DigitRunEnd(s, SpaceRunEnd(s, i + Len(RatingPrefix)))
         > SpaceRunEnd(s, i + Len(RatingPrefix))

\* message.str.extract(r'Rating:\s*(\d+)').astype(float): the leftmost match's
\* group, missing (NaN) without a match
ExtractRating(s) ==
    LET at == {i \in 1..Len(s) : RatingMatchAt(s, i)}
    IN  IF at = {} THEN Missing
        ELSE LET b == SpaceRunEnd(s, FirstOf(at) + Len(RatingPrefix))
             IN  <<StrToInt(SubSeq(s, b, DigitRunEnd(s, b) - 1))>>

\* save_feedback(username, message): INSERT INTO feedback
save_feedback(tbl, username, message) ==
    Append(tbl, [username |-> username, message |-> message])

\* SELECT * FROM feedback ORDER BY submitted_at DESC, with the rating column added
feedback_df(tbl) ==
    [i \in 1..Len(tbl) |->
        [username |-> tbl[Len(tbl) + 1 - i].username,
         message |-> tbl[Len(tbl) + 1 - i].message,
         rating |-> ExtractRating(tbl[Len(tbl) + 1 - i].message)]]

RECURSIVE SumRatings(_)
SumRatings(df) ==
    IF df = << >> THEN 0
    ELSE (IF Head(df).rating = Missing THEN 0 ELSE Head(df).rating[1]) + SumRatings(Tail(df))

\* feedback_df['rating'].mean() as the fraction sum / count over the non-NaN ratings
avg_rating(df) ==
    [sum |-> SumRatings(df),
     count |-> Cardinality({i \in DOMAIN df : df[i].rating # Missing})]

(***************************************************************************)
(* Pages behind the login: Upload Data, View Data, Predictions.            *)
(***************************************************************************)
\* the navigation selectbox changed to Upload Data: the page, no button pressed
VisitUpload ==
    /\ ~Stopped
    /\ out' = [page |-> "Upload Data", event |-> "shown"]
    /\ UNCHANGED <<users, sales, feedback, auth, user, star_rating,
                   feedback_submitted, reg>>

\* Upload Data: a file in the uploader and the Save to Database button
UploadSave(df) ==
    /\ ~Stopped
    /\ out.page = "Upload Data"
    /\ LET r == save_to_db(sales, df)
       IN  /\ Len(r.tbl.rows) <= MaxSalesRows
           /\ sales' = r.tbl
           /\ out' = [page |-> "Upload Data",
                      event |-> IF r.ret THEN "saved" ELSE "save_failed",
                      df |-> df]
    /\ UNCHANGED <<users, feedback, auth, user, star_rating, feedback_submitted, reg>>

\* Upload Data: the Clear All Data button; clear_db's exception is not caught
ClearAll ==
    /\ ~Stopped
    /\ out.page = "Upload Data"
    /\ IF ClearRaises(sales)
       THEN /\ out' = [page |-> "Upload Data", event |-> "exception"]
            /\ UNCHANGED sales
       ELSE /\ sales' = clear_db(sales)
            /\ out' = [page |-> "Upload Data", event |-> "cleared"]
    /\ UNCHANGED <<users, feedback, auth, user, star_rating, feedback_submitted, reg>>

\* View Data: load_data() and the table, or the No data found warning
ViewData ==
    /\ ~Stopped
    /\ out' = [page |-> "View Data",
               event |-> IF load_data(sales).rows = << >> THEN "no_data" ELSE "table",
               data |-> load_data(sales)]
    /\ UNCHANGED <<users, sales, feedback, auth, user, star_rating,
                   feedback_submitted, reg>>

\* Predictions: load_data() handed to the forecasting / regression libraries
Predictions ==
    /\ ~Stopped
    /\ out' = [page |-> "Predictions",
               event |-> IF load_data(sales).rows = << >> THEN "no_data" ELSE "forecast"]
    /\ UNCHANGED <<users, sales, feedback, auth, user, star_rating,
                   feedback_submitted, reg>>

(***************************************************************************)
(* Dashboard: filters, KPIs and the region x product pivot.                *)
(***************************************************************************)
\* data[name] of one row
Cell(data, row, name) == row[FirstOf(ColIdx(data.columns, name))]

\* ["All"] + sorted(data[name].dropna().unique())
SelectOptions(data, name) ==
    {"All"} \cup ({Cell(data, data.rows[i], name) : i \in DOMAIN data.rows} \ {NaN})

\* the days that data['date'] holds (NaT skipped by min / max)
Days(data) ==
    {DayOf(Cell(data, data.rows[i], date)) :
        i \in {j \in DOMAIN data.rows : Cell(data, data.rows[j], date) # NaT}}

\* data['date'] >= pd.to_datetime(start_date)) & (data['date'] <= pd.to_datetime(end_date)
InDateRange(ts, start_date, end_date) ==
    /\ ts # NaT
    /\ ts[1] >= Midnight(start_date)[1]
    /\ ts[1] <= Midnight(end_date)[1]

\* if region != "All": data = data[data['region'] == region]   (likewise product)
Matches(value, selected) == selected = "All" \/ value = selected

\* the three filters of the Dashboard, in the order the script applies them
Filter(data, sel_region, sel_product, start_date, end_date) ==
    [columns |-> data.columns,
     rows |-> SelectSeq(data.rows,
                LAMBDA row :
                    /\ InDateRange(Cell(data, row, date), start_date, end_date)
                    /\ Matches(Cell(data, row, region), sel_region)
                    /\ Matches(Cell(data, row, product), sel_product))]

\* data[name].sum()
RECURSIVE SumRows(_, _, _)
SumRows(data, rows, name) ==
    IF rows = << >> THEN 0
    ELSE Cell(data, Head(rows), name) + SumRows(data, Tail(rows), name)

\* data.pivot_table(values='revenue', index='region', columns='product',
\*                  aggfunc='sum', fill_value=0): rows with a missing key are dropped
pivot_table(data) ==
    LET keyed == SelectSeq(data.rows,
                    LAMBDA row : /\ Cell(data, row, region) # NaN
                                 /\ Cell(data, row, product) # NaN)
        index == {Cell(data, keyed[i], region) : i \in DOMAIN keyed}
        cols == {Cell(data, keyed[i], product) : i \in DOMAIN keyed}
    IN  [k \in index \X cols |->
            SumRows(data,
                    SelectSeq(keyed, LAMBDA row : /\ Cell(data, row, region) = k[1]
                                                  /\ Cell(data, row, product) = k[2]),
                    revenue)]

\* Dashboard: load_data(), the four filter widgets, the KPIs and the heatmap's pivot
Dashboard(sel_region, sel_product, start_date, end_date) ==
    /\ ~Stopped
    /\ LET data == load_data(sales)
       IN  IF data.rows = << >>
           THEN out' = [page |-> "Dashboard", event |-> "no_data"]
           ELSE IF Days(data) = {}
           THEN out' = [page |-> "Dashboard", event |-> "exception"]
           ELSE /\ sel_region \in SelectOptions(data, region)
                /\ sel_product \in SelectOptions(data, product)
                /\ LET filtered == Filter(data, sel_region, sel_product,
                                          start_date, end_date)
                   IN  out' = [page |-> "Dashboard", event |-> "kpi",
                               region |-> sel_region, product |-> sel_product,
                               start_date |-> start_date, end_date |-> end_date,
                               data |-> data, filtered |-> filtered,
                               total_revenue |-> SumRows(filtered, filtered.rows, revenue),
                               units_sold |-> SumRows(filtered, filtered.rows, units_sold),
                               pivot |-> pivot_table(filtered)]
    /\ UNCHANGED <<users, sales, feedback, auth, user, star_rating,
                   feedback_submitted, reg>>

(***************************************************************************)
(* Feedback page and Admin Panel.                                          *)
(***************************************************************************)
\* `if st.session_state.get("feedback_submitted", False)`: the info instead of the form
AlreadySubmitted ==
    /\ out' = [page |-> "Feedback", event |-> "already_submitted"]
    /\ UNCHANGED <<feedback, feedback_submitted, star_rating>>

\* Feedback page with no button pressed
VisitFeedback ==
    /\ ~Stopped
    /\ IF feedback_submitted
       THEN AlreadySubmitted
       ELSE /\ star_rating' = IF star_rating = Unset THEN <<0>> ELSE star_rating
            /\ out' = [page |-> "Feedback", event |-> "form"]
            /\ UNCHANGED <<feedback, feedback_submitted>>
    /\ UNCHANGED <<users, sales, auth, user, reg>>

\* Feedback page: star button i (0-based, as in the loop) pressed on the shown page
StarClick(i) ==
    /\ ~Stopped
    /\ out.page = "Feedback"
    /\ IF feedback_submitted
       THEN AlreadySubmitted
       ELSE /\ star_rating' = <<i + 1>>
            /\ out' = [page |-> "Feedback", event |-> "form"]
            /\ UNCHANGED <<feedback, feedback_submitted>>
    /\ UNCHANGED <<users, sales, auth, user, reg>>

UnratedNever(rating) == FALSE

\* `if st.session_state.star_rating == 0`: the warning instead of the save
Unrated(rating) == rating = 0

\* Feedback page: Submit Feedback pressed with `comment` in the text area
SubmitFeedback(comment) ==
    /\ ~Stopped
    /\ out.page = "Feedback"
    /\ IF feedback_submitted
       THEN AlreadySubmitted
       ELSE IF Unrated(star_rating[1])
       THEN /\ out' = [page |-> "Feedback", event |-> "rating_missing"]
            /\ UNCHANGED <<feedback, feedback_submitted, star_rating>>
       ELSE /\ Len(feedback) < MaxFeedback
            /\ feedback' = save_feedback(feedback, user,
                                         FeedbackMessage(star_rating[1], comment))
            /\ feedback_submitted' = TRUE
            /\ star_rating' = <<0>>
            /\ out' = [page |-> "Feedback", event |-> "thanks"]
    /\ UNCHANGED <<users, sales, auth, user, reg>>

IsAdminAnyCase(username) == Lower(username) = admin

\* `if st.session_state.user != "admin"`: the not-authorized warning
IsAdmin(username) == username = admin

\* Admin Panel: all feedback with its analytics, and the registered users
AdminPanel ==
    /\ ~Stopped
    /\ IF ~IsAdmin(user)
       THEN out' = [page |-> "Admin Panel", event |-> "not_authorized"]
       ELSE out' = [page |-> "Admin Panel", event |-> "admin",
                    feedback_df |-> feedback_df(feedback),
                    avg_rating |-> avg_rating(feedback_df(feedback)),
                    users_df |-> [i \in DOMAIN users |-> users[i].username]]
    /\ UNCHANGED <<users, sales, feedback, auth, user, star_rating,
                   feedback_submitted, reg>>

(***************************************************************************)
(* Concurrent sessions inside register_user: the SELECT and the INSERT are *)
(* two statements on separate connections, so other sessions' statements   *)
(* may run between them.                                                   *)
(***************************************************************************)
Sessions == 1..NumSessions

Idle == [pc |-> "idle", username |-> EmptyStr, password |-> ""]

\* register_user, lines 82-84: the existence check
RegSelect(s, username, password) ==
    /\ reg[s].pc # "insert"
    /\ Len(users) < MaxUsers \/ UserExists(users, username)
    /\ reg' = [reg EXCEPT ![s] =
                 [pc |-> IF UserExists(users, username) THEN "False" ELSE "insert",
                  username |-> username, password |-> password]]
    /\ UNCHANGED <<users, sales, feedback, auth, user, star_rating,
                   feedback_submitted, out>>

\* register_user, lines 85-91: the INSERT, which the PRIMARY KEY may reject
RegInsert(s) ==
    /\ reg[s].pc = "insert"
    /\ LET r == InsertUser(users, reg[s].username, reg[s].password)
       IN  /\ users' = r.tbl
           /\ reg' = [reg EXCEPT ![s].pc = r.ret]
    /\ UNCHANGED <<sales, feedback, auth, user, star_rating, feedback_submitted, out>>

(***************************************************************************)
(* Initial state and inputs.                                               *)
(***************************************************************************)
\* fresh databases (users and feedback created empty, no sales table) and a new session
Init ==
    /\ users = << >>
    /\ sales = NoTable
    /\ feedback = << >>
    /\ auth = FALSE
    /\ user = EmptyStr
    /\ star_rating = Unset
    /\ feedback_submitted = FALSE
    /\ out = LoginForm("new_session")
    /\ reg = [s \in Sessions |-> Idle]

\* headers of the first column of an uploaded file
Headers == {<<" ", "D", "a", "t", "e">>, <<"D", "A", "T", "E", " ">>, <<"w", "h", "e", "n">>, <<"d", "a", "t", "e">>}

StdColumns(h) == <<h, product, region, units_sold, revenue>>

\* the documented example row, with every kind of date cell
ExampleRow(cell) == <<cell, "Widget A", "East", 10, 100>>

DateCells == {<<1, 0>>, NaT, Junk}

SeqsUpTo(S, n) == UNION {[1..k -> S] : k \in 1..n}

\* uploaded files of the ingestion specification: every header, every mix of date cells
IngestFiles ==
    {[columns |-> StdColumns(h), rows |-> rows] :
        h \in Headers, rows \in SeqsUpTo({ExampleRow(c) : c \in DateCells}, MaxSalesRows)}

\* the one file of the session specification
ExampleFile == [columns |-> StdColumns(<<"D", "A", "T", "E", " ">>), rows |-> <<ExampleRow(<<1, 0>>)>>]

\* a comment with surrounding blanks that itself looks like a rating
TrickyComment == <<" ", "R", "a", "t", "i", "n", "g", ":", " ", "9", " ">>

Regions == {"East", "All", NaN}

Products == {"Widget A", NaN}

\* one-row files of the Dashboard specification
DashFiles ==
    {[columns |-> StdColumns(date), rows |-> <<row>>] :
        row \in {<<<<d, t>>, p, r, 1, v>> :
                    d \in 1..MaxDay, t \in {0, TicksPerDay - 1},
                    p \in Products, r \in Regions, v \in {100}}}

(***************************************************************************)
(* Specifications.  Every one starts from Init and runs the same script;   *)
(* they differ in the inputs the user is given.                            *)
(***************************************************************************)
\* the whole application, every page, with one registered user
Next ==
    \/ NewSession
    \/ Register(alice, "pw1")
    \/ \E p \in Passwords : Login(alice, p)
    \/ Logout
    \/ VisitUpload
    \/ UploadSave(ExampleFile)
    \/ ClearAll
    \/ ViewData
    \/ Predictions
    \/ Dashboard("All", "All", 1, MaxDay)
    \/ VisitFeedback
    \/ \E i \in 0..4 : StarClick(i)
    \/ SubmitFeedback(EmptyStr)
    \/ AdminPanel

Spec == Init /\ [][Next]_vars

\* registration, login and the Admin Panel with every username and password
NextAuth ==
    \/ NewSession
    \/ \E u \in Usernames, p \in Passwords : Register(u, p)
    \/ \E u \in Usernames, p \in Passwords : Login(u, p)
    \/ Logout
    \/ AdminPanel

SpecAuth == Init /\ [][NextAuth]_vars

\* one user uploading files of every shape
NextIngest ==
    \/ Register(alice, "pw1")
    \/ Login(alice, "pw1")
    \/ VisitUpload
    \/ \E df \in IngestFiles : UploadSave(df)
    \/ ClearAll
    \/ ViewData

SpecIngest == Init /\ [][NextIngest]_vars

\* one user uploading rows of every kind and filtering the Dashboard
NextDash ==
    \/ Register(alice, "pw1")
    \/ Login(alice, "pw1")
    \/ VisitUpload
    \/ \E df \in DashFiles : UploadSave(df)
    \/ \E r \in Regions \cup {"All"}, p \in Products \cup {"All"},
          a \in 1..MaxDay, b \in 1..MaxDay : Dashboard(r, p, a, b)

SpecDash == Init /\ [][NextDash]_vars

\* users leaving feedback from one session after another, and the admin reading it
NextFeedback ==
    \/ NewSession
    \/ \E u \in {admin, alice} : Register(u, "pw1")
    \/ \E u \in {admin, alice} : Login(u, "pw1")
    \/ Logout
    \/ VisitFeedback
    \/ \E i \in 0..4 : StarClick(i)
    \/ SubmitFeedback(TrickyComment)
    \/ AdminPanel

SpecFeedback == Init /\ [][NextFeedback]_vars

\* several sessions registering at the same time
NextConc ==
    \/ \E s \in Sessions, u \in Usernames, p \in Passwords : RegSelect(s, u, p)
    \/ \E s \in Sessions : RegInsert(s)

SpecConc == Init /\ [][NextConc]_vars

(***************************************************************************)
(* Properties.                                                             *)
(***************************************************************************)
\* username u has a row in the users table (rows come only from successful registrations)
Registered(u) == \E i \in DOMAIN users : users[i].username = u

\* the users table stores hash(p) for u
Stored(u, p) ==
    \E i \in DOMAIN users :
        users[i].username = u /\ users[i].password = hash_password(p)

RegisterEvents == {"registered", "username_exists", "exception"}

\* C1: once register(u, p1) has succeeded, a later register(u, p2) reports that the
\* username exists and leaves the users table exactly as it was (same rows, so u's
\* stored hash is still hash(p1)).
C1_SecondRegisterFails ==
    [][\A u \in Usernames :
          (/\ out'.page = "Login"
           /\ out'.event \in RegisterEvents
           /\ out'.username = u
           /\ Registered(u))
          => (out'.event = "username_exists" /\ users' = users)]_vars

\* C1 witness: a second registration of a stored username with another password failed
C1_Witness ==
    /\ out.page = "Login"
    /\ out.event = "username_exists"
    /\ Registered(out.username)
    /\ ~Stored(out.username, out.password)
    /\ Len(users) = MaxUsers

\* C2: login(u, p) succeeds iff u is registered and hash(p) is the hash stored for u;
\* a username that was never registered cannot log in with any password.
C2_LoginIffStoredHash ==
    /\ \A u \in Usernames, p \in Passwords : verify_user(u, p) <=> Stored(u, p)
    /\ \A u \in Usernames : ~Registered(u) => \A p \in Passwords : ~verify_user(u, p)
    /\ out.event = "login_ok" =>
          auth /\ user = out.username /\ Stored(out.username, out.password)
    /\ out.event = "invalid_credentials" =>
          ~auth /\ ~Stored(out.username, out.password)

\* C2 witness: a login succeeded for a user who would be refused with another password
C2_Witness ==
    /\ out.event = "login_ok"
    /\ \E p \in Passwords : ~verify_user(out.username, p)
    /\ \E u \in Usernames : ~Registered(u)

AppPages == {"Upload Data", "View Data", "Dashboard", "Feedback", "Predictions",
             "Admin Panel"}

\* C3: the session starts Anonymous and becomes Authenticated only by a successful
\* login; register and a failed login leave it Anonymous; logout makes it Anonymous
\* with the username cleared; no page is dispatched and no store behind the pages
\* changes while the session is Anonymous.
C3_PagesNeedLogin ==
    /\ ~auth /\ user = EmptyStr
    /\ [](out.page \in AppPages => auth)
    /\ [](out.page = "Login" => ~auth /\ user = EmptyStr)
    /\ [][(~auth /\ auth') =>
            (/\ out'.event = "login_ok"
             /\ user' = out'.username
             /\ verify_user(out'.username, out'.password))]_vars
    /\ [][(sales' # sales \/ feedback' # feedback) => (auth /\ auth')]_vars

\* C3 witness: an authenticated session saved feedback after data was uploaded
C3_Witness ==
    /\ auth
    /\ out.page = "Feedback" /\ out.event = "thanks"
    /\ sales.exists

\* C4 as stated: the Admin Panel shows its protected content exactly when the
\* lower-cased username is "admin".
C4_AdminAnyCase ==
    out.page = "Admin Panel" => (out.event = "admin" <=> (auth /\ Lower(user) = admin))

\* C4, amended: the Admin Panel shows its protected content exactly when the session
\* is Authenticated and the username is exactly "admin" (case-sensitive); every other
\* authenticated user gets the warning and none of the protected content.
C4_AdminExactName ==
    out.page = "Admin Panel" =>
        /\ auth
        /\ out.event = "admin" <=> user = admin
        /\ out.event = "not_authorized" <=> user # admin
        /\ out.event = "admin" =>
              /\ out.feedback_df = feedback_df(feedback)
              /\ out.users_df = [i \in DOMAIN users |-> users[i].username]
        /\ out.event = "not_authorized" => DOMAIN out = {"page", "event"}

\* C4 witness: admin sees the user list while another user is registered too
C4_Witness ==
    /\ out.page = "Admin Panel" /\ out.event = "admin"
    /\ Len(out.users_df) = MaxUsers

\* the uploaded frame has no column that is `date` once trimmed and lower-cased
NoDateColumn(df) == \A i \in DOMAIN df.columns : Lower(Strip(df.columns[i])) # date

\* a column that normalizes to `date` holds a cell that does not parse
UnparseableDate(df) ==
    \E i \in DOMAIN df.columns, r \in DOMAIN df.rows :
        Lower(Strip(df.columns[i])) = date /\ df.rows[r][i] = Junk

SaveEvents == {"saved", "save_failed"}

\* C5: an upload without a `date` column (after trim and lower-case), or with an
\* unparseable date value, fails and leaves the sales table as it was: the same
\* rows before and after, so none of the batch is visible to a later load().
C5_BadUploadChangesNothing ==
    [][(/\ out'.page = "Upload Data"
        /\ out'.event \in SaveEvents
        /\ NoDateColumn(out'.df) \/ UnparseableDate(out'.df))
       => (/\ out'.event = "save_failed"
           /\ sales' = sales
           /\ load_data(sales') = load_data(sales))]_vars

\* C5 witness: a batch with a good row and a junk date was refused on a filled table
C5_Witness ==
    /\ out.page = "Upload Data" /\ out.event = "save_failed"
    /\ UnparseableDate(out.df)
    /\ Len(out.df.rows) > 1
    /\ sales.exists /\ sales.rows # << >>

\* C6: clear() completes without error in every reachable state, also before the
\* first upload has created the sales table, and load() is empty afterwards.
C6_ClearNeverFails ==
    (out.page = "Upload Data" /\ out.event \in {"cleared", "exception"}) =>
        (out.event = "cleared" /\ load_data(sales).rows = << >>)

RECURSIVE SumCells(_, _)
SumCells(f, keys) ==
    IF keys = {} THEN 0
    ELSE LET k == CHOOSE x \in keys : TRUE
         IN  f[k] + SumCells(f, keys \ {k})

\* C7: the cells of the region x product pivot add up to the Total Revenue KPI of
\* the same filtered table, also when rows lack a region or a product.
C7_PivotSumsToTotal ==
    (out.page = "Dashboard" /\ out.event = "kpi") =>
        SumCells(out.pivot, DOMAIN out.pivot) = out.total_revenue

\* the values a column of the loaded table holds
ColumnValues(data, name) ==
    {Cell(data, data.rows[i], name) : i \in DOMAIN data.rows} \ {NaN}

\* the calendar day of a row lies in the picked range, both ends included
DayInRange(data, row, start_date, end_date) ==
    /\ Cell(data, row, date) # NaT
    /\ start_date <= DayOf(Cell(data, row, date))
    /\ DayOf(Cell(data, row, date)) <= end_date

\* C8: with region value R selected the table behind the KPIs holds no row of another
\* region (likewise product), it holds exactly the rows dated from the start day to the
\* end day, both included, and "All" filters nothing.
C8_FilterExact ==
    (out.page = "Dashboard" /\ out.event = "kpi") =>
        /\ out.region \in ColumnValues(out.data, region) =>
              \A i \in DOMAIN out.filtered.rows :
                  Cell(out.data, out.filtered.rows[i], region) = out.region
        /\ out.product \in ColumnValues(out.data, product) =>
              \A i \in DOMAIN out.filtered.rows :
                  Cell(out.data, out.filtered.rows[i], product) = out.product
        /\ (out.region = "All" /\ out.product = "All") =>
              out.filtered.rows =
                  SelectSeq(out.data.rows,
                            LAMBDA row : DayInRange(out.data, row,
                                                    out.start_date, out.end_date))

\* listAll(): the stored feedback as the Admin Panel reads it, newest first
ListAll == feedback_df(feedback)

\* C9: every stored feedback entry reads back with a rating in 1..5; a Submit with
\* rating 0 stores nothing; a submission with rating r by the logged-in user u adds
\* exactly one entry, from which listAll reads back username u and rating r, and the
\* average of a single rating-5 entry is 5.
C9_FeedbackEntries ==
    /\ [](LET df == ListAll
              avg == avg_rating(df)
          IN  /\ \A i \in DOMAIN df : df[i].rating # Missing /\ df[i].rating[1] \in 1..5
              /\ avg.count = Len(feedback)
              /\ (Len(feedback) = 1 /\ df[1].rating = <<5>>) => avg.sum = 5 * avg.count)
    /\ [][(out'.page = "Feedback" /\ out'.event = "rating_missing") =>
             feedback' = feedback]_vars
    /\ [][feedback' # feedback =>
            (/\ auth /\ Registered(user)
             /\ star_rating[1] \in 1..5
             /\ Len(feedback') = Len(feedback) + 1
             /\ SubSeq(feedback', 1, Len(feedback)) = feedback
             /\ feedback_df(feedback')[1].username = user
             /\ feedback_df(feedback')[1].rating = <<star_rating[1]>>
             /\ out'.event = "thanks")]_vars

\* C9 witness: the admin reads two entries of different users, the newer one rated 5
C9_Witness ==
    /\ out.page = "Admin Panel" /\ out.event = "admin"
    /\ Len(out.feedback_df) = 2
    /\ out.feedback_df[1].username # out.feedback_df[2].username
    /\ out.feedback_df[1].rating = <<5>>
    /\ out.avg_rating.count = 2

\* C10: however the statements of concurrent register_user calls interleave, no two
\* rows of the users table share a username, a call returns True only by inserting
\* the row of a username that had none, and at most one call per username succeeds.
C10_UniqueUsernames ==
    /\ [](\A i, j \in DOMAIN users :
             users[i].username = users[j].username => i = j)
    /\ [](\A s, t \in Sessions :
             (/\ reg[s].pc = "True" /\ reg[t].pc = "True"
              /\ reg[s].username = reg[t].username) => s = t)
    /\ [][\A s \in Sessions :
             (reg[s].pc = "insert" /\ reg'[s].pc = "True") =>
                 (/\ ~Registered(reg[s].username)
                  /\ Len(users') = Len(users) + 1
                  /\ users'[Len(users')].username = reg[s].username)]_vars

\* C10 witness: two calls passed the check for one username; one inserted, one was refused
C10_Witness ==
    \E s, t \in Sessions :
        /\ reg[s].pc = "True" /\ reg[t].pc = "IntegrityError"
        /\ reg[s].username = reg[t].username
        /\ reg[s].password # reg[t].password

====
